---- MODULE Spec2Model ----
(***************************************************************************)
(* Cats vs. Homework: the round engine of src/managers.py, the units of    *)
(* src/cats.py and the devices of src/contraptions.py.                     *)
(*                                                                         *)
(* A tile is the integer lane * LANE_WIDTH + column.  Column 0 is the goal *)
(* edge (exit() is None), column LANE_WIDTH - 1 is the lane entrance       *)
(* (entrance() is None).  Python's None is NoTile for tile references and  *)
(* None for a tile's occupant.  An exception raised by the code is the     *)
(* field err of the world record: once set, the rest of the handler is     *)
(* skipped, as the exception unwinds to the tkinter callback that started  *)
(* the handler.                                                            *)
(***************************************************************************)
EXTENDS Integers, Sequences, FiniteSets, TLC

VARIABLES lanes, selectors, actor, cats, devs, contraptions, balls,
          batteries, rounds, state, err, loses,
          pc, idx, moveNo, calls, log, regAtStart, click, op, taken, failed, begin

vars == <<lanes, selectors, actor, cats, devs, contraptions, balls,
          batteries, rounds, state, err, loses,
          pc, idx, moveNo, calls, log, regAtStart, click, op, taken, failed, begin>>

(***************************************************************************)
(* Program constants                                                       *)
(***************************************************************************)
LANE_WIDTH == 8
STARTING_BATTERIES == 8
WIN_ROUND == 40
SnackUses == 5
ThrowerRange == 3

(***************************************************************************)
(* Bounds of the exploration                                               *)
(***************************************************************************)
MaxPlacements == 2
MaxPlaceRound == 3
MaxCalls == 14
MaxCallsLong == 44
MaxAmount == 6
MaxLateRound == 5
MaxNegative == 2

NoTile == -1
None == <<"none", 0>>
Ball == <<"ball", 0>>
CatRef(i) == <<"cat", i>>
DevRef(d) == <<"dev", d>>

CatKinds == {"tabby", "calico", "kitten"}
DeviceKinds == {"laser", "snacks", "charger", "thrower", "triple_laser",
                "colorful_thrower", "heater"}

StartingAttention(kind) ==
    CASE kind = "tabby" -> 4
      [] kind = "calico" -> 5
      [] kind = "kitten" -> 3

NeededRestTime(kind) ==
    CASE kind = "tabby" -> 4
      [] kind = "calico" -> 4
      [] kind = "kitten" -> 6

Cost(kind) ==
    CASE kind = "laser" -> 7
      [] kind = "snacks" -> 4
      [] kind = "charger" -> 3
      [] kind = "thrower" -> 3
      [] kind = "triple_laser" -> 12
      [] kind = "colorful_thrower" -> 5
      [] kind = "heater" -> 4

(***************************************************************************)
(* Board geometry (Board.__init__, Tile.__init__)                          *)
(***************************************************************************)
Tiles == 0 .. (lanes * LANE_WIDTH - 1)
Lane(t) == t \div LANE_WIDTH
Column(t) == t % LANE_WIDTH

Exit(t) == IF t = NoTile \/ Column(t) = 0 THEN NoTile ELSE t - 1
Entrance(t) == IF t = NoTile \/ Column(t) = LANE_WIDTH - 1 THEN NoTile ELSE t + 1
Above(t) == IF t = NoTile \/ Lane(t) = 0 THEN NoTile ELSE t - LANE_WIDTH
Below(t) == IF t = NoTile \/ Lane(t) = lanes - 1 THEN NoTile ELSE t + LANE_WIDTH

LaneEntrance(i) == i * LANE_WIDTH + (LANE_WIDTH - 1)

(***************************************************************************)
(* The world: every field the handlers read or write                       *)
(***************************************************************************)
World ==
    [actor |-> actor, cats |-> cats, devs |-> devs, reg |-> contraptions,
     balls |-> balls, batteries |-> batteries, rounds |-> rounds,
     state |-> state, err |-> err, loses |-> loses, failed |-> failed]

Raise(w) == [w EXCEPT !.err = TRUE]

\* an `assert` on the arguments of set_actor, clear_actor or spend_batteries
\* that fails: the exception, and a note of which precondition it was
Fail(w, what) == [w EXCEPT !.err = TRUE, !.failed = @ \cup {what}]

IsEmpty(w, t) == w.actor[t] = None
IsCat(w, t) == w.actor[t][1] = "cat"
IsBall(w, t) == w.actor[t][1] = "ball"
IsDev(w, t) == w.actor[t][1] = "dev"
IsHeater(w, t) == IsDev(w, t) /\ w.devs[w.actor[t][2]].kind = "heater"

\* Tile.set_actor: the tile must be empty
SetActor(w, t, a) ==
    IF w.err THEN w
    ELSE IF ~IsEmpty(w, t) THEN Fail(w, "set_actor")
    ELSE [w EXCEPT !.actor[t] = a]

\* Tile.clear_actor: the tile must hold an actor; the empty image is then
\* fetched through GameManager.manager(), which needs a live game
ClearActor(w, t) ==
    IF w.err THEN w
    ELSE IF IsEmpty(w, t) THEN Fail(w, "clear_actor")
    ELSE IF w.state # "Active" THEN Raise([w EXCEPT !.actor[t] = None])
    ELSE [w EXCEPT !.actor[t] = None]

\* Actor._tile of a unit or a device
TileOf(w, a) ==
    IF a[1] = "cat" THEN w.cats[a[2]].tile ELSE w.devs[a[2]].tile

SetTileOf(w, a, t) ==
    IF a[1] = "cat" THEN [w EXCEPT !.cats[a[2]].tile = t]
    ELSE [w EXCEPT !.devs[a[2]].tile = t]

IsOnBoard(w, a) == TileOf(w, a) # NoTile

\* Actor.teleport without `self._tile.clear_actor()`
Teleport_NoClear(w, a, t) ==
    IF w.err THEN w
    ELSE SetActor(SetTileOf(w, a, t), t, a)

\* Actor.teleport
Teleport(w, a, t) ==
    IF w.err THEN w
    ELSE LET w1 == IF IsOnBoard(w, a) THEN ClearActor(w, TileOf(w, a)) ELSE w
         IN  IF w1.err THEN w1 ELSE SetActor(SetTileOf(w1, a, t), t, a)

\* Actor.remove_from_board
RemoveFromBoard(w, a) ==
    IF w.err THEN w
    ELSE IF ~IsOnBoard(w, a) THEN Raise(w)
    ELSE LET w1 == ClearActor(w, TileOf(w, a))
         IN  IF w1.err THEN w1 ELSE SetTileOf(w1, a, NoTile)


(***************************************************************************)
(* Units (src/cats.py)                                                     *)
(***************************************************************************)
\* Cat.distract with `< 0` for `<= 0`
CatDistract_StrictZero(w, i, amount) ==
    IF w.err THEN w
    ELSE IF amount < 0 THEN Raise(w)
    ELSE LET a == w.cats[i].attention - amount
         IN  IF a < 0
             THEN RemoveFromBoard(
                      [w EXCEPT !.cats[i].attention = 0,
                                !.cats[i].rest = NeededRestTime(w.cats[i].kind)],
                      CatRef(i))
             ELSE [w EXCEPT !.cats[i].attention = a]

\* Cat.distract without `self._attention = 0`
CatDistract_NoFloor(w, i, amount) ==
    IF w.err THEN w
    ELSE IF amount < 0 THEN Raise(w)
    ELSE LET a == w.cats[i].attention - amount
         IN  IF a <= 0
             THEN RemoveFromBoard(
                      [w EXCEPT !.cats[i].attention = a,
                                !.cats[i].rest = NeededRestTime(w.cats[i].kind)],
                      CatRef(i))
             ELSE [w EXCEPT !.cats[i].attention = a]

\* Cat.distract without `self._rest_time = self._needed_rest_time`
CatDistract_NoRestTime(w, i, amount) ==
    IF w.err THEN w
    ELSE IF amount < 0 THEN Raise(w)
    ELSE LET a == w.cats[i].attention - amount
         IN  IF a <= 0
             THEN RemoveFromBoard([w EXCEPT !.cats[i].attention = 0], CatRef(i))
             ELSE [w EXCEPT !.cats[i].attention = a]

\* Cat.distract with `max(amount, 0)` in place of the assertion
CatDistract_Clamped(w, i, amount) ==
    IF w.err THEN w
    ELSE LET a == w.cats[i].attention - (IF amount < 0 THEN 0 ELSE amount)
         IN  IF a <= 0
             THEN RemoveFromBoard(
                      [w EXCEPT !.cats[i].attention = 0,
                                !.cats[i].rest = NeededRestTime(w.cats[i].kind)],
                      CatRef(i))
             ELSE [w EXCEPT !.cats[i].attention = a]

\* Cat.distract
CatDistract(w, i, amount) ==
    IF w.err THEN w
    ELSE IF amount < 0 THEN Raise(w)
    ELSE LET a == w.cats[i].attention - amount
         IN  IF a <= 0
             THEN RemoveFromBoard(
                      [w EXCEPT !.cats[i].attention = 0,
                                !.cats[i].rest = NeededRestTime(w.cats[i].kind)],
                      CatRef(i))
             ELSE [w EXCEPT !.cats[i].attention = a]

\* Calico.distract without `tile_above.is_empty()`
CalicoDistract_Unchecked(w, i, amount) ==
    LET w1 == CatDistract(w, i, amount)
    IN  IF w1.err THEN w1
        ELSE IF IsOnBoard(w1, CatRef(i))
        THEN LET tile_above == Above(w1.cats[i].tile)
             IN  IF tile_above # NoTile
                 THEN Teleport(w1, CatRef(i), tile_above)
                 ELSE w1
        ELSE w1

\* Calico.distract: the base distraction, then a dodge to the tile above
CalicoDistract(w, i, amount) ==
    LET w1 == CatDistract(w, i, amount)
    IN  IF w1.err THEN w1
        ELSE IF IsOnBoard(w1, CatRef(i))
        THEN LET tile_above == Above(w1.cats[i].tile)
             IN  IF tile_above # NoTile /\ IsEmpty(w1, tile_above)
                 THEN Teleport(w1, CatRef(i), tile_above)
                 ELSE w1
        ELSE w1

\* dynamic dispatch of distract on the unit's class
Distract(w, i, amount) ==
    IF w.cats[i].kind = "calico" THEN CalicoDistract(w, i, amount)
    ELSE CatDistract(w, i, amount)

\* the test `t and isinstance(t.actor(), SpaceHeater)`
HeaterAt(w, t) == t # NoTile /\ IsHeater(w, t)

\* Cat._check_space_heater without the scans of the lanes above and below
CheckSpaceHeater_OwnLane(w, i) ==
    IF w.err THEN w
    ELSE LET t == w.cats[i].tile
         IN  IF HeaterAt(w, Entrance(t)) \/ HeaterAt(w, Entrance(Entrance(t)))
             THEN Distract(w, i, 1)
             ELSE IF HeaterAt(w, Exit(t)) \/ HeaterAt(w, Exit(Exit(t)))
             THEN Distract(w, i, 1)
             ELSE IF t = NoTile THEN Raise(w)
             ELSE w

\* Cat._check_space_heater without `return` after the scan of its own lane:
\* a device found there and one found above or below both distract
CheckSpaceHeater_NoReturn(w, i) ==
    IF w.err THEN w
    ELSE LET t == w.cats[i].tile
             own == \/ HeaterAt(w, Entrance(t)) \/ HeaterAt(w, Entrance(Entrance(t)))
                    \/ HeaterAt(w, Exit(t)) \/ HeaterAt(w, Exit(Exit(t)))
             other == \/ HeaterAt(w, Above(t)) \/ HeaterAt(w, Entrance(Above(t)))
                      \/ HeaterAt(w, Exit(Above(t)))
                      \/ HeaterAt(w, Below(t)) \/ HeaterAt(w, Entrance(Below(t)))
                      \/ HeaterAt(w, Exit(Below(t)))
             w1 == IF own THEN Distract(w, i, 1) ELSE w
         IN  IF t = NoTile THEN Raise(w)
             ELSE IF other /\ IsOnBoard(w1, CatRef(i)) THEN Distract(w1, i, 1)
             ELSE w1

\* Cat._check_space_heater: the scan runs on self._tile, which is None when
\* the unit has just been removed from the board
CheckSpaceHeater(w, i) ==
    IF w.err THEN w
    ELSE LET t == w.cats[i].tile
         IN  IF HeaterAt(w, Entrance(t)) \/ HeaterAt(w, Entrance(Entrance(t)))
             THEN Distract(w, i, 1)
             ELSE IF HeaterAt(w, Exit(t)) \/ HeaterAt(w, Exit(Exit(t)))
             THEN Distract(w, i, 1)
             ELSE IF t = NoTile THEN Raise(w)
             ELSE IF Above(t) # NoTile
                     /\ (HeaterAt(w, Above(t)) \/ HeaterAt(w, Entrance(Above(t)))
                         \/ HeaterAt(w, Exit(Above(t))))
             THEN Distract(w, i, 1)
             ELSE IF Below(t) # NoTile
                     /\ (HeaterAt(w, Below(t)) \/ HeaterAt(w, Entrance(Below(t)))
                         \/ HeaterAt(w, Exit(Below(t))))
             THEN Distract(w, i, 1)
             ELSE w

\* GameManager.remove_contraption: list.remove of the first occurrence
RemoveFromSeq(s, x) ==
    LET first == CHOOSE k \in 1 .. Len(s) : s[k] = x /\ \A j \in 1 .. (k - 1) : s[j] # x
    IN  [k \in 1 .. (Len(s) - 1) |-> IF k < first THEN s[k] ELSE s[k + 1]]

\* GameManager.remove_contraption without `self._contraptions.remove(...)`
RemoveContraption_Keep(w, d) ==
    IF w.err THEN w
    ELSE IF \A k \in 1 .. Len(w.reg) : w.reg[k] # d THEN Raise(w)
    ELSE w

RemoveContraption(w, d) ==
    IF w.err THEN w
    ELSE IF \A k \in 1 .. Len(w.reg) : w.reg[k] # d THEN Raise(w)
    ELSE [w EXCEPT !.reg = RemoveFromSeq(w.reg, d)]

\* Contraption.interact without `self._tile = None`
ContraptionInteract_KeepTile(w, d) ==
    IF w.err THEN w
    ELSE IF ~IsOnBoard(w, DevRef(d)) THEN Raise(w)
    ELSE LET w1 == ClearActor(w, w.devs[d].tile)
         IN  IF w1.err THEN w1
             ELSE RemoveContraption(w1, d)

\* Contraption.interact
ContraptionInteract(w, d) ==
    IF w.err THEN w
    ELSE IF ~IsOnBoard(w, DevRef(d)) THEN Raise(w)
    ELSE LET w1 == ClearActor(w, w.devs[d].tile)
         IN  IF w1.err THEN w1
             ELSE RemoveContraption(SetTileOf(w1, DevRef(d), NoTile), d)

\* SnackDispenser.interact with `<= 1` for `== 0`
SnackInteract_OffByOne(w, d) ==
    IF w.err THEN w
    ELSE LET w1 == [w EXCEPT !.devs[d].uses = @ - 1]
         IN  IF w1.devs[d].uses <= 1 THEN ContraptionInteract(w1, d) ELSE w1

\* SnackDispenser.interact
SnackInteract(w, d) ==
    IF w.err THEN w
    ELSE LET w1 == [w EXCEPT !.devs[d].uses = @ - 1]
         IN  IF w1.devs[d].uses = 0 THEN ContraptionInteract(w1, d) ELSE w1

Interact(w, d) ==
    IF w.devs[d].kind = "snacks" THEN SnackInteract(w, d)
    ELSE ContraptionInteract(w, d)

\* GameManager.lose_game, GameManager.destroy
LoseGame(w) == [w EXCEPT !.state = "Lost", !.loses = @ + 1]

\* Cat.move walking onto the tile of a device its interaction has removed
Move_WalkOver(w, i) ==
    IF w.err THEN w
    ELSE IF ~IsOnBoard(w, CatRef(i)) THEN Raise(w)
    ELSE LET tile == w.cats[i].tile
             next_spot == Exit(tile)
         IN  IF next_spot = NoTile
             THEN IF w.state # "Active" THEN Raise(w) ELSE LoseGame(w)
             ELSE IF IsBall(w, next_spot)
             THEN CheckSpaceHeater(
                      Distract(Teleport(ClearActor(w, next_spot), CatRef(i), next_spot),
                               i, 1),
                      i)
             ELSE IF IsEmpty(w, next_spot)
             THEN CheckSpaceHeater(Teleport(w, CatRef(i), next_spot), i)
             ELSE IF IsDev(w, next_spot)
             THEN LET w1 == Interact(w, w.actor[next_spot][2])
                  IN  IF ~w1.err /\ IsEmpty(w1, next_spot)
                      THEN Teleport(w1, CatRef(i), next_spot)
                      ELSE w1
             ELSE w

\* Cat.move without the isinstance test before interact(): a unit ahead is
\* asked to interact, which no unit can (AttributeError)
Move_InteractWithAny(w, i) ==
    IF w.err THEN w
    ELSE IF ~IsOnBoard(w, CatRef(i)) THEN Raise(w)
    ELSE LET tile == w.cats[i].tile
             next_spot == Exit(tile)
         IN  IF next_spot = NoTile
             THEN IF w.state # "Active" THEN Raise(w) ELSE LoseGame(w)
             ELSE IF IsBall(w, next_spot)
             THEN CheckSpaceHeater(
                      Distract(Teleport(ClearActor(w, next_spot), CatRef(i), next_spot),
                               i, 1),
                      i)
             ELSE IF IsEmpty(w, next_spot)
             THEN CheckSpaceHeater(Teleport(w, CatRef(i), next_spot), i)
             ELSE IF IsDev(w, next_spot)
             THEN Interact(w, w.actor[next_spot][2])
             ELSE Raise(w)

\* Cat.move; GameManager.manager() asserts that the game still exists
Move(w, i) ==
    IF w.err THEN w
    ELSE IF ~IsOnBoard(w, CatRef(i)) THEN Raise(w)
    ELSE LET tile == w.cats[i].tile
             next_spot == Exit(tile)
         IN  IF next_spot = NoTile
             THEN IF w.state # "Active" THEN Raise(w) ELSE LoseGame(w)
             ELSE IF IsBall(w, next_spot)
             THEN CheckSpaceHeater(
                      Distract(Teleport(ClearActor(w, next_spot), CatRef(i), next_spot),
                               i, 1),
                      i)
             ELSE IF IsEmpty(w, next_spot)
             THEN CheckSpaceHeater(Teleport(w, CatRef(i), next_spot), i)
             ELSE IF IsDev(w, next_spot)
             THEN Interact(w, w.actor[next_spot][2])
             ELSE w

\* the branch of Cat.move a unit on the board takes
MoveCase(w, i) ==
    LET next_spot == Exit(w.cats[i].tile)
    IN  IF next_spot = NoTile THEN "lose"
        ELSE IF IsBall(w, next_spot) THEN "pickup"
        ELSE IF IsEmpty(w, next_spot) THEN "step"
        ELSE IF IsDev(w, next_spot) THEN "interact"
        ELSE "blocked"

\* the lanes whose entrance tile is empty, as Cat.rest collects them
EmptyLanes(w) == {l \in 0 .. (lanes - 1) : IsEmpty(w, LaneEntrance(l))}

\* Cat.rest without `self._attention = self._starting_attention`
Rest_NoAttention(w, i, lane) ==
    IF w.err THEN w
    ELSE LET w1 == [w EXCEPT !.cats[i].rest = @ - 1]
         IN  IF w1.cats[i].rest = 0
             THEN IF EmptyLanes(w1) = {}
                  THEN [w1 EXCEPT !.cats[i].rest = 1]
                  ELSE Teleport(w1, CatRef(i), LaneEntrance(lane))
             ELSE w1

\* Cat.rest without `self._rest_time = 1` when no lane entrance is empty
Rest_NoRearm(w, i, lane) ==
    IF w.err THEN w
    ELSE LET w1 == [w EXCEPT !.cats[i].rest = @ - 1]
         IN  IF w1.cats[i].rest = 0
             THEN IF EmptyLanes(w1) = {}
                  THEN w1
                  ELSE Teleport(
                           [w1 EXCEPT !.cats[i].attention =
                                          StartingAttention(w1.cats[i].kind)],
                           CatRef(i), LaneEntrance(lane))
             ELSE w1

\* Cat.rest; lane is the outcome of random.randint over the empty lanes
Rest(w, i, lane) ==
    IF w.err THEN w
    ELSE LET w1 == [w EXCEPT !.cats[i].rest = @ - 1]
         IN  IF w1.cats[i].rest = 0
             THEN IF EmptyLanes(w1) = {}
                  THEN [w1 EXCEPT !.cats[i].rest = 1]
                  ELSE Teleport(
                           [w1 EXCEPT !.cats[i].attention =
                                          StartingAttention(w1.cats[i].kind)],
                           CatRef(i), LaneEntrance(lane))
             ELSE w1


(***************************************************************************)
(* Devices (src/contraptions.py)                                           *)
(***************************************************************************)
\* a scan that gives up at the first occupied tile when it holds no unit
FirstCat_Blocked(w, t, n) ==
    IF t = NoTile THEN NoTile
    ELSE LET span == {s \in t .. (t + n - 1) : Lane(s) = Lane(t) /\ ~IsEmpty(w, s)}
         IN  IF span = {} THEN NoTile
             ELSE LET s == CHOOSE s \in span : \A u \in span : s <= u
                  IN  IF IsCat(w, s) THEN s ELSE NoTile

RECURSIVE FirstCat(_, _, _)
\* the loop `while tile is not None [and count < n]`: the first tile holding
\* a unit among t, t.entrance(), ... (at most n tiles), or NoTile
FirstCat(w, t, n) ==
    IF t = NoTile \/ n = 0 THEN NoTile
    ELSE IF IsCat(w, t) THEN t
    ELSE FirstCat(w, Entrance(t), n - 1)

RECURSIVE LastEmpty(_, _, _, _)
\* the second loop of ColorfulBallThrower.end_round: the last empty tile met
LastEmpty(w, t, n, last_empty) ==
    IF t = NoTile \/ n = 0 THEN last_empty
    ELSE LastEmpty(w, Entrance(t), n - 1, IF IsEmpty(w, t) THEN t ELSE last_empty)

\* `tile.actor().distract(1)` on the unit found by a scan, if any
DistractAt(w, t) ==
    IF w.err \/ t = NoTile THEN w ELSE Distract(w, w.actor[t][2], 1)

\* LaserPointer.end_round without `return` after the first unit
LaserEndRound_EveryUnit(w, d) ==
    LET first == FirstCat(w, Entrance(w.devs[d].tile), LANE_WIDTH)
        w1 == DistractAt(w, first)
    IN  IF first = NoTile THEN w
        ELSE DistractAt(w1, FirstCat(w1, Entrance(first), LANE_WIDTH))

\* LaserPointer.end_round
LaserEndRound(w, d) ==
    DistractAt(w, FirstCat(w, Entrance(w.devs[d].tile), LANE_WIDTH))

\* BatteryCharger.end_round with `if not self._ready`
ChargerEndRound_ReadyFirst(w, d) ==
    LET w1 == IF ~w.devs[d].ready THEN [w EXCEPT !.batteries = @ + 1] ELSE w
    IN  [w1 EXCEPT !.devs[d].ready = ~w.devs[d].ready]

\* BatteryCharger.end_round without `if self._ready`
ChargerEndRound_EveryRound(w, d) ==
    [w EXCEPT !.batteries = @ + 1, !.devs[d].ready = ~w.devs[d].ready]

\* BatteryCharger.end_round
ChargerEndRound(w, d) ==
    LET w1 == IF w.devs[d].ready THEN [w EXCEPT !.batteries = @ + 1] ELSE w
    IN  [w1 EXCEPT !.devs[d].ready = ~w.devs[d].ready]

\* BallThrower.end_round with `tiles_checked <= 3`
ThrowerEndRound_OneMore(w, d) ==
    DistractAt(w, FirstCat(w, Entrance(w.devs[d].tile), ThrowerRange + 1))

\* BallThrower.end_round
ThrowerEndRound(w, d) ==
    DistractAt(w, FirstCat(w, Entrance(w.devs[d].tile), ThrowerRange))

\* TripleLaserPointer._shoot_laser
ShootLaser(w, start) ==
    IF w.err THEN w
    ELSE DistractAt(w, FirstCat(w, Entrance(start), LANE_WIDTH))

\* TripleLaserPointer.end_round
TripleLaserEndRound(w, d) ==
    LET t == w.devs[d].tile
        w1 == ShootLaser(w, t)
        w2 == IF Above(t) # NoTile THEN ShootLaser(w1, Above(t)) ELSE w1
    IN  IF Below(t) # NoTile THEN ShootLaser(w2, Below(t)) ELSE w2

\* ColorfulBall() followed by teleport(last_empty)
ThrowBall(w, t) ==
    SetActor([w EXCEPT !.balls = @ \cup {t}], t, Ball)

\* ColorfulBallThrower.end_round without `if not found_cat`
ColorfulThrowerEndRound_Both(w, d) ==
    LET first == Entrance(w.devs[d].tile)
        found == FirstCat(w, first, ThrowerRange)
        w1 == DistractAt(w, found)
        last_empty == LastEmpty(w1, first, ThrowerRange, NoTile)
    IN  IF last_empty # NoTile THEN ThrowBall(w1, last_empty) ELSE w1

\* ColorfulBallThrower.end_round
ColorfulThrowerEndRound(w, d) ==
    LET first == Entrance(w.devs[d].tile)
        found == FirstCat(w, first, ThrowerRange)
        last_empty == LastEmpty(w, first, ThrowerRange, NoTile)
    IN  IF found # NoTile THEN DistractAt(w, found)
        ELSE IF last_empty # NoTile THEN ThrowBall(w, last_empty)
        ELSE w

\* end_round of a device that takes itself out of the registry when done
DeviceEndRound_SelfRemove(w, d) ==
    LET k == w.devs[d].kind
        w1 == CASE k = "laser" -> LaserEndRound(w, d)
                [] k = "charger" -> ChargerEndRound(w, d)
                [] k = "thrower" -> ThrowerEndRound(w, d)
                [] k = "triple_laser" -> TripleLaserEndRound(w, d)
                [] k = "colorful_thrower" -> ColorfulThrowerEndRound(w, d)
                [] OTHER -> w
    IN  IF w.err THEN w ELSE RemoveContraption(w1, d)

\* dynamic dispatch of end_round on the device's class
DeviceEndRound(w, d) ==
    LET k == w.devs[d].kind
    IN  IF w.err THEN w
        ELSE CASE k = "laser" -> LaserEndRound(w, d)
               [] k = "charger" -> ChargerEndRound(w, d)
               [] k = "thrower" -> ThrowerEndRound(w, d)
               [] k = "triple_laser" -> TripleLaserEndRound(w, d)
               [] k = "colorful_thrower" -> ColorfulThrowerEndRound(w, d)
               [] OTHER -> w

(***************************************************************************)
(* The game manager (src/managers.py)                                      *)
(***************************************************************************)
\* a handler that keeps its own reference to the manager of the game
Manager_Stale(w) == w

\* GameManager.manager: `assert GameManager.is_initialized()`, which fails
\* once destroy() has dropped the instance of a won or lost game
Manager(w) ==
    IF w.err THEN w
    ELSE IF w.state # "Active" THEN Raise(w)
    ELSE w

\* GameManager.add_batteries
AddBatteries(w, amount) ==
    IF w.err THEN w
    ELSE IF amount < 0 THEN Raise(w)
    ELSE [w EXCEPT !.batteries = @ + amount]

\* GameManager.spend_batteries
SpendBatteries(w, amount) ==
    IF w.err THEN w
    ELSE IF ~(amount >= 0 /\ w.batteries >= amount) THEN Fail(w, "spend_batteries")
    ELSE [w EXCEPT !.batteries = @ - amount]

\* the constructors of the device classes
NewDevice(kind) ==
    [kind |-> kind, tile |-> NoTile,
     uses |-> IF kind = "snacks" THEN SnackUses ELSE 0, ready |-> FALSE]

\* Contraption.place without `add_contraption(self)`
ContraptionPlace_Unregistered(w, d, t) ==
    Teleport(w, DevRef(d), t)

\* Contraption.place: add_contraption, then teleport
ContraptionPlace(w, d, t) ==
    Teleport([w EXCEPT !.reg = Append(@, d)], DevRef(d), t)

\* the test of Tile._clicked without `self.entrance() is not None`
CanBuild_AnyTile(w, t, kind) ==
    /\ IsEmpty(w, t)
    /\ Cost(kind) <= w.batteries

\* the test of Tile._clicked without `self.is_empty()`
CanBuild_Occupied(w, t, kind) ==
    /\ Entrance(t) # NoTile
    /\ Cost(kind) <= w.batteries

\* the test of Tile._clicked
CanBuild(w, t, kind) ==
    /\ Entrance(t) # NoTile
    /\ IsEmpty(w, t)
    /\ Cost(kind) <= w.batteries

\* Tile._clicked spending the cost before it tests can_build
TileClicked_ChargeFirst(w, t, kind) ==
    IF w.err THEN w
    ELSE LET w1 == SpendBatteries(w, Cost(kind))
             d == Len(w.devs) + 1
         IN  IF w1.err THEN w1
             ELSE IF CanBuild(w, t, kind)
             THEN ContraptionPlace([w1 EXCEPT !.devs = Append(@, NewDevice(kind))], d, t)
             ELSE w1

\* Tile._clicked without the test of the cost, writing _batteries directly
\* as BatteryCharger.end_round does
TileClicked_Unchecked(w, t, kind) ==
    IF w.err THEN w
    ELSE IF Entrance(t) # NoTile /\ IsEmpty(w, t)
    THEN LET w1 == [w EXCEPT !.batteries = @ - Cost(kind)]
             d == Len(w.devs) + 1
         IN  ContraptionPlace([w1 EXCEPT !.devs = Append(@, NewDevice(kind))], d, t)
    ELSE w

\* Tile._clicked with the device kind of the current selector
TileClicked(w, t, kind) ==
    IF w.err THEN w
    ELSE IF CanBuild(w, t, kind)
    THEN LET w1 == SpendBatteries(w, Cost(kind))
             d == Len(w.devs) + 1
         IN  IF w1.err THEN w1
             ELSE ContraptionPlace([w1 EXCEPT !.devs = Append(@, NewDevice(kind))], d, t)
    ELSE w

\* GameManager.win_game, GameManager.destroy
WinGame(w) == [w EXCEPT !.state = "Won"]

\* GameManager.increment_round
IncrementRound(w) ==
    IF w.err THEN w
    ELSE LET w1 == [w EXCEPT !.rounds = @ + 1]
         IN  IF w1.rounds >= WIN_ROUND THEN WinGame(w1) ELSE w1


(***************************************************************************)
(* Construction (GameManager.initialize)                                   *)
(***************************************************************************)
\* Cat.__init__ through Tabby, Calico and Kitten
NewCat(kind, initial_rest_time) ==
    [kind |-> kind, attention |-> 0, rest |-> initial_rest_time, tile |-> NoTile]

\* the games explored: lane_count, the device kinds offered, the units
Game(lane_count, kinds, roster) ==
    [lanes |-> lane_count, selectors |-> kinds, cats |-> roster]

LaserGame == Game(1, {"laser", "charger"}, <<NewCat("tabby", 1)>>)
LauncherGame == Game(1, {"colorful_thrower"}, <<NewCat("calico", 1)>>)
SnackGame == Game(1, {"snacks", "heater"}, <<NewCat("kitten", 1), NewCat("tabby", 2)>>)
ThrowerGame == Game(1, {"thrower"}, <<NewCat("tabby", 1), NewCat("tabby", 0)>>)
HeaterGame == Game(2, {"heater"}, <<NewCat("calico", 1), NewCat("kitten", 2)>>)

Scenarios == {LaserGame, LauncherGame, SnackGame, ThrowerGame, HeaterGame}
UnitScenarios == {LaserGame, SnackGame, ThrowerGame}

TallGame == Game(3, {"heater"}, <<NewCat("tabby", 1)>>)
WarmGame == Game(1, {"colorful_thrower", "heater"}, <<NewCat("tabby", 1)>>)
HeaterScenarios == {TallGame, WarmGame, HeaterGame}

TripleGame == Game(3, {"triple_laser"}, <<NewCat("calico", 4), NewCat("tabby", 4)>>)
ScanGame == Game(2, {"laser"}, <<NewCat("kitten", 1), NewCat("tabby", 2), NewCat("calico", 3)>>)
RangeGame == Game(1, {"thrower"}, <<NewCat("kitten", 1), NewCat("tabby", 2)>>)
DodgeScenarios == {HeaterGame}
BlockerGame == Game(1, {"snacks", "thrower"}, <<NewCat("kitten", 1), NewCat("tabby", 2)>>)
DeviceScenarios == {TripleGame, ScanGame, RangeGame, LauncherGame, LaserGame, SnackGame,
                    BlockerGame}
LongScenarios == {LaserGame, LauncherGame}

\* the last call of a method of a unit: end_round (with the branch of
\* Cat.move or Cat.rest it took) or a direct distract(amount)
NoOp == [name |-> "none", unit |-> 0, amount |-> 0]

\* the last tile click: the tile, the kind selected, whether a device was built
NoClick == [t |-> NoTile, kind |-> "none", granted |-> FALSE]

InitGame(g) ==
    /\ lanes = g.lanes
    /\ selectors = g.selectors
    /\ actor = [t \in 0 .. (g.lanes * LANE_WIDTH - 1) |-> None]
    /\ cats = g.cats
    /\ devs = <<>>
    /\ contraptions = <<>>
    /\ balls = {}
    /\ batteries = STARTING_BATTERIES
    /\ rounds = 0
    /\ state = "Active"
    /\ err = FALSE
    /\ loses = 0
    /\ pc = "idle"
    /\ idx = 1
    /\ moveNo = 1
    /\ calls = 0
    /\ log = <<>>
    /\ regAtStart = <<>>
    /\ click = NoClick
    /\ op = NoOp
    /\ taken = [i \in 1 .. Len(g.cats) |-> "none"]
    /\ failed = {}
    /\ begin = [batteries |-> STARTING_BATTERIES, ready |-> 0,
                tiles |-> [i \in 1 .. Len(g.cats) |-> NoTile]]

Init == \E g \in Scenarios : InitGame(g)
InitLong == \E g \in LongScenarios : InitGame(g)
InitUnit == \E g \in UnitScenarios : InitGame(g)
InitHeater == \E g \in HeaterScenarios : InitGame(g)
InitDodge == \E g \in DodgeScenarios : InitGame(g)
InitDevices == \E g \in DeviceScenarios : InitGame(g)
AbuseScenarios == {LauncherGame, SnackGame}
InitAbuse == \E g \in AbuseScenarios : InitGame(g)
EndScenarios == {LaserGame, LauncherGame, SnackGame}
InitEnd == \E g \in EndScenarios : InitGame(g)

(***************************************************************************)
(* The handlers, step by step                                              *)
(***************************************************************************)
\* the outcome w of a handler becomes the state; taken remembers, for the
\* running round, which pass has taken each unit off the board, and begin
\* the balance, the number of ready generators and the tile of each unit
\* when the handler started
Commit(w) ==
    /\ actor' = w.actor
    /\ cats' = w.cats
    /\ devs' = w.devs
    /\ contraptions' = w.reg
    /\ balls' = w.balls
    /\ batteries' = w.batteries
    /\ rounds' = w.rounds
    /\ state' = w.state
    /\ err' = w.err
    /\ loses' = w.loses
    /\ failed' = w.failed
    /\ begin' = IF pc = "idle"
                THEN [batteries |-> batteries,
                      ready |-> Cardinality({k \in 1 .. Len(contraptions) :
                                   /\ devs[contraptions[k]].kind = "charger"
                                   /\ devs[contraptions[k]].ready}),
                      tiles |-> [i \in 1 .. Len(cats) |-> cats[i].tile]]
                ELSE begin
    /\ taken' = [i \in 1 .. Len(cats) |->
                    IF pc = "idle" THEN "none"
                    ELSE IF cats[i].tile # NoTile /\ w.cats[i].tile = NoTile
                    THEN (IF pc = "contraptions" THEN "device" ELSE "move")
                    ELSE taken[i]]

\* the steps of the running round: an exception that ends it is logged
Logged(l, w) == IF w.err THEN Append(l, <<"raise", 0>>) ELSE l

\* a handler starts with no exception pending
Fresh == [World EXCEPT !.err = FALSE]

\* the device loop left after its first entry
AfterContraption_SkipDevices(w, k) ==
    IF w.err THEN <<"idle", 1>>
    ELSE IF k + 1 <= Len(w.reg) /\ k = 0 THEN <<"contraptions", k + 1>>
    ELSE IF Len(w.cats) >= 1 THEN <<"cats", 1>>
    ELSE <<"finish", 1>>

\* where GameManager.end_round goes on after the k-th entry of the device
\* loop: the list iterator compares its index with the current length
AfterContraption(w, k) ==
    IF w.err THEN <<"idle", 1>>
    ELSE IF k + 1 <= Len(w.reg) THEN <<"contraptions", k + 1>>
    ELSE IF Len(w.cats) >= 1 THEN <<"cats", 1>>
    ELSE <<"finish", 1>>

\* the unit loop without `if (self._game_ended): return`
AfterCat_IgnoreLoss(w, k) ==
    IF w.err THEN <<"idle", 1>>
    ELSE IF k + 1 <= Len(w.cats) THEN <<"cats", k + 1>>
    ELSE <<"finish", 1>>

\* where GameManager.end_round goes on after cat.end_round() of the k-th
\* unit: `if (self._game_ended): return`
AfterCat(w, k) ==
    IF w.err THEN <<"idle", 1>>
    ELSE IF w.state # "Active" THEN <<"idle", 1>>
    ELSE IF k + 1 <= Len(w.cats) THEN <<"cats", k + 1>>
    ELSE <<"finish", 1>>

\* SelectionManager._end_turn_clicked: GameManager.end_round up to the loops
EndTurnClicked(cap) ==
    /\ pc = "idle"
    /\ state = "Active"
    /\ calls < cap
    /\ LET w == AddBatteries(Fresh, 1)
           nxt == AfterContraption(w, 0)
       IN  /\ Commit(w)
           /\ pc' = nxt[1]
           /\ idx' = nxt[2]
    /\ moveNo' = 1
    /\ calls' = calls + 1
    /\ log' = << <<"add", 0>> >>
    /\ regAtStart' = contraptions
    /\ click' = NoClick
    /\ op' = NoOp
    /\ UNCHANGED <<lanes, selectors>>

\* one iteration of `for contraption in self._contraptions`
ContraptionEndRound ==
    /\ pc = "contraptions"
    /\ LET d == contraptions[idx]
           w == DeviceEndRound(World, d)
           nxt == AfterContraption(w, idx)
       IN  /\ Commit(w)
           /\ pc' = nxt[1]
           /\ idx' = nxt[2]
           /\ log' = Logged(Append(log, DevRef(d)), w)
    /\ op' = NoOp
    /\ UNCHANGED <<lanes, selectors, moveNo, calls, regAtStart, click>>

\* Kitten.end_round without its second move()
SecondMove_Never(w, i) == FALSE

\* Kitten.end_round as the end_round of every unit
SecondMove_EveryUnit(w, i) ==
    /\ ~w.err
    /\ moveNo = 1
    /\ IsOnBoard(w, CatRef(i))

\* Kitten.end_round moves a second time when the unit is still on the board
SecondMove(w, i) ==
    /\ ~w.err
    /\ moveNo = 1
    /\ w.cats[i].kind = "kitten"
    /\ IsOnBoard(w, CatRef(i))

\* one call of Cat.move inside `for cat in self._cats` (Cat.end_round and
\* Kitten.end_round with the unit on the board)
CatMove ==
    /\ pc = "cats"
    /\ IsOnBoard(World, CatRef(idx))
    /\ LET w == Move(World, idx)
           nxt == IF SecondMove(w, idx) THEN <<"cats", idx>> ELSE AfterCat(w, idx)
       IN  /\ Commit(w)
           /\ pc' = nxt[1]
           /\ idx' = nxt[2]
           /\ moveNo' = IF SecondMove(w, idx) THEN 2 ELSE 1
           /\ log' = Logged(IF moveNo = 1 THEN Append(log, CatRef(idx)) ELSE log, w)
    /\ op' = [name |-> MoveCase(World, idx), unit |-> idx, amount |-> 0]
    /\ UNCHANGED <<lanes, selectors, calls, regAtStart, click>>

\* Cat.rest inside `for cat in self._cats` (the unit is off the board)
CatRest ==
    /\ pc = "cats"
    /\ ~IsOnBoard(World, CatRef(idx))
    /\ \E lane \in 0 .. (lanes - 1) :
          /\ lane \in EmptyLanes(World) \/ (EmptyLanes(World) = {} /\ lane = 0)
          /\ LET w == Rest(World, idx, lane)
                 nxt == AfterCat(w, idx)
             IN  /\ Commit(w)
                 /\ pc' = nxt[1]
                 /\ idx' = nxt[2]
                 /\ log' = Logged(Append(log, CatRef(idx)), w)
    /\ op' = [name |-> "rest", unit |-> idx, amount |-> 0]
    /\ UNCHANGED <<lanes, selectors, moveNo, calls, regAtStart, click>>

\* the end of GameManager.end_round: update_attentions, increment_round
FinishRound ==
    /\ pc = "finish"
    /\ Commit(IncrementRound(World))
    /\ pc' = "idle"
    /\ log' = Append(log, <<"inc", 0>>)
    /\ op' = NoOp
    /\ UNCHANGED <<lanes, selectors, idx, moveNo, calls, regAtStart, click>>

\* a tile click commits the outcome of Tile._clicked and is remembered
Clicked(t, kind) ==
    LET w == TileClicked(Fresh, t, kind)
    IN  /\ Commit(w)
        /\ click' = [t |-> t, kind |-> kind, granted |-> Len(w.devs) > Len(devs)]

\* Tile._clicked on tile t with a device of the given kind selected, when
\* the request is granted
Place ==
    /\ pc = "idle"
    /\ state = "Active"
    /\ Len(devs) < MaxPlacements
    /\ rounds < MaxPlaceRound
    /\ \E t \in Tiles, kind \in selectors :
          /\ CanBuild(Fresh, t, kind)
          /\ Clicked(t, kind)
    /\ op' = NoOp
    /\ UNCHANGED <<lanes, selectors, pc, idx, moveNo, calls, log, regAtStart>>

\* Tile._clicked when the request is refused
PlaceRejected ==
    /\ pc = "idle"
    /\ state = "Active"
    /\ rounds < MaxPlaceRound
    /\ \E t \in Tiles, kind \in selectors :
          /\ ~CanBuild(Fresh, t, kind)
          /\ Clicked(t, kind)
    /\ op' = NoOp
    /\ UNCHANGED <<lanes, selectors, pc, idx, moveNo, calls, log, regAtStart>>

Next ==
    \/ EndTurnClicked(MaxCalls)
    \/ ContraptionEndRound
    \/ CatMove
    \/ CatRest
    \/ FinishRound
    \/ Place
    \/ PlaceRejected

Spec == Init /\ [][Next]_vars

\* the same handlers, played until the game is won or lost
NextLong ==
    \/ EndTurnClicked(MaxCallsLong)
    \/ ContraptionEndRound
    \/ CatMove
    \/ CatRest
    \/ FinishRound
    \/ Place
    \/ PlaceRejected

SpecLong == InitLong /\ [][NextLong]_vars

\* SelectionManager._end_turn_clicked once the game is won or lost
EndTurnRefused ==
    /\ pc = "idle"
    /\ state # "Active"
    /\ Commit(AddBatteries(Manager(Fresh), 1))
    /\ click' = NoClick
    /\ op' = NoOp
    /\ UNCHANGED <<lanes, selectors, pc, idx, moveNo, calls, log, regAtStart>>

\* Tile._clicked once the game is won or lost
ClickRefused ==
    /\ pc = "idle"
    /\ state # "Active"
    /\ \E t \in Tiles, kind \in selectors :
          LET w == TileClicked(Manager(Fresh), t, kind)
          IN  /\ Commit(w)
              /\ click' = [t |-> t, kind |-> kind, granted |-> Len(w.devs) > Len(devs)]
    /\ op' = NoOp
    /\ UNCHANGED <<lanes, selectors, pc, idx, moveNo, calls, log, regAtStart>>

\* the game played to its end, and the handlers called after it
NextEnd ==
    \/ EndTurnClicked(MaxCallsLong)
    \/ ContraptionEndRound
    \/ CatMove
    \/ CatRest
    \/ FinishRound
    \/ Place
    \/ PlaceRejected
    \/ EndTurnRefused
    \/ ClickRefused

SpecEnd == InitEnd /\ [][NextEnd]_vars

\* the same handlers on the boards with passive-range devices
NextHeater ==
    \/ EndTurnClicked(MaxCalls)
    \/ ContraptionEndRound
    \/ CatMove
    \/ CatRest
    \/ FinishRound
    \/ Place
    \/ PlaceRejected

SpecHeater == InitHeater /\ [][NextHeater]_vars

\* Tile._clicked with the tri-lane scanner selected, granted: its cost is
\* above the balance until four rounds have been played
PlaceLate ==
    /\ pc = "idle"
    /\ state = "Active"
    /\ Len(devs) < MaxPlacements
    /\ rounds < MaxLateRound
    /\ \E t \in Tiles, kind \in selectors \cap {"triple_laser"} :
          /\ CanBuild(Fresh, t, kind)
          /\ Clicked(t, kind)
    /\ op' = NoOp
    /\ UNCHANGED <<lanes, selectors, pc, idx, moveNo, calls, log, regAtStart>>

\* the same handlers on the boards that exercise every kind of device
NextDevices ==
    \/ EndTurnClicked(MaxCalls)
    \/ ContraptionEndRound
    \/ CatMove
    \/ CatRest
    \/ FinishRound
    \/ Place
    \/ PlaceRejected
    \/ PlaceLate

SpecDevices == InitDevices /\ [][NextDevices]_vars

\* a direct call cat.distract(amount) on a unit on the board, between two
\* rounds, as test_calico_distracted makes it
DistractCall ==
    /\ pc = "idle"
    /\ state = "Active"
    /\ \E i \in 1 .. Len(cats), amount \in 0 .. MaxAmount :
          /\ IsOnBoard(World, CatRef(i))
          /\ Commit(Distract(Fresh, i, amount))
          /\ op' = [name |-> "distract", unit |-> i, amount |-> amount]
    /\ UNCHANGED <<lanes, selectors, pc, idx, moveNo, calls, log, regAtStart, click>>

\* no direct call has been made yet
Live == op.name # "distract"

\* the game played up to one direct call of distract
NextUnit ==
    \/ Live /\ EndTurnClicked(MaxCalls)
    \/ Live /\ ContraptionEndRound
    \/ Live /\ CatMove
    \/ Live /\ CatRest
    \/ Live /\ FinishRound
    \/ Live /\ Place
    \/ Live /\ PlaceRejected
    \/ Live /\ DistractCall

SpecUnit == InitUnit /\ [][NextUnit]_vars

\* the same on the two-lane board with a dodging unit
NextDodge ==
    \/ Live /\ EndTurnClicked(MaxCalls)
    \/ Live /\ ContraptionEndRound
    \/ Live /\ CatMove
    \/ Live /\ CatRest
    \/ Live /\ FinishRound
    \/ Live /\ Place
    \/ Live /\ PlaceRejected
    \/ Live /\ DistractCall

SpecDodge == InitDodge /\ [][NextDodge]_vars

\* cat.distract(amount) called with a negative amount, on or off the board
NegativeDistractCall ==
    /\ pc = "idle"
    /\ state = "Active"
    /\ \E i \in 1 .. Len(cats), amount \in (0 - MaxNegative) .. (0 - 1) :
          /\ Commit(Distract(Fresh, i, amount))
          /\ op' = [name |-> "distract", unit |-> i, amount |-> amount]
    /\ UNCHANGED <<lanes, selectors, pc, idx, moveNo, calls, log, regAtStart, click>>

\* the game played up to one direct call of distract, of any amount
NextAbuse ==
    \/ Live /\ EndTurnClicked(MaxCalls)
    \/ Live /\ ContraptionEndRound
    \/ Live /\ CatMove
    \/ Live /\ CatRest
    \/ Live /\ FinishRound
    \/ Live /\ Place
    \/ Live /\ PlaceRejected
    \/ Live /\ DistractCall
    \/ Live /\ NegativeDistractCall

SpecAbuse == InitAbuse /\ [][NextAbuse]_vars


(***************************************************************************)
(* Properties                                                              *)
(***************************************************************************)
IsPrefix(s, t) == Len(s) <= Len(t) /\ \A k \in 1 .. Len(s) : s[k] = t[k]

OnBoardCats == {i \in 1 .. Len(cats) : cats[i].tile # NoTile}
OnBoardDevs == {d \in 1 .. Len(devs) : devs[d].tile # NoTile}

\* what a complete round logs: the resource grant, the devices registered at
\* the start of the round in registration order, the units in creation
\* order, the increment of the round counter
ExpectedLog ==
    << <<"add", 0>> >>
    \o [k \in 1 .. Len(regAtStart) |-> DevRef(regAtStart[k])]
    \o [i \in 1 .. Len(cats) |-> CatRef(i)]
    \o << <<"inc", 0>> >>

\* the last step logged is an exception
Raised == log # <<>> /\ log[Len(log)] = <<"raise", 0>>

\* the steps logged before the exception, if any
StepsRun == IF Raised THEN SubSeq(log, 1, Len(log) - 1) ELSE log

\* the last round was ended neither by a loss nor by an exception
RoundCompleted == pc = "idle" /\ calls > 0 /\ ~Raised /\ state # "Lost"

\* C1: within one advanceRound the +1 resource comes first, then endOfRound
\* of every device registered at the start of the round in registration
\* order, then endOfRound of every unit in creation order, then the
\* increment of the round counter: what has run so far is always a prefix of
\* that order, and a completed round has run all of it.
C1_RoundOrder ==
    calls > 0 =>
        /\ IsPrefix(StepsRun, ExpectedLog)
        /\ RoundCompleted => log = ExpectedLog

C1_Witness ==
    /\ RoundCompleted
    /\ log = ExpectedLog
    /\ Len(regAtStart) >= 2
    /\ Len(cats) >= 2

\* C2: a loss signalled by a unit's move makes the state Lost in that very
\* step, which changes nothing else of the game (nothing is rolled back);
\* from then on no further unit takes a turn, the round counter is not
\* incremented and the balance, the board and the devices stay as they were.
C2_LossAborts ==
    [][/\ (state = "Active" /\ state' = "Lost") =>
              /\ pc = "cats"
              /\ UNCHANGED <<batteries, rounds, actor, cats, devs, contraptions, balls>>
       /\ state = "Lost" =>
              /\ UNCHANGED <<batteries, rounds, actor, cats, devs, contraptions,
                             balls, state>>
              /\ log' = log \/ log' = Append(log, <<"raise", 0>>)]_vars

C2_Witness ==
    /\ state = "Lost"
    /\ pc = "idle"
    /\ Len(log) >= 3
    /\ log[Len(log)] = CatRef(1)
    /\ Len(cats) >= 2
    /\ Len(regAtStart) >= 1

\* C3: when a unit standing on a tile without exit takes its turn, the loss
\* is signalled exactly once and is reported as the Lost state, not as an
\* error, whatever the kind of the unit.
C3_LossOnceNoError ==
    state = "Lost" => (loses = 1 /\ ~err)


\* C4: the round counter never exceeds the win threshold, the game is Won
\* exactly when the counter has reached it, and no game is still Active
\* after more than WIN_ROUND calls of advanceRound.
C4_RoundCounter ==
    /\ rounds <= WIN_ROUND
    /\ (state = "Won") <=> (rounds = WIN_ROUND)
    /\ state = "Active" => calls <= WIN_ROUND

\* a step of Tile._clicked
ClickStep == pc = "idle" /\ pc' = "idle" /\ click'.t # NoTile

\* C5: a placement request is granted exactly when the tile is not a lane
\* entrance, the tile is empty and the kind's cost is at most the balance;
\* a granted request lowers the balance by exactly the cost, builds one new
\* device of that kind, attaches it to the tile and appends it to the
\* registry of active devices.
C5_Placement ==
    [][ClickStep =>
          LET t == click'.t
              kind == click'.kind
              d == Len(devs) + 1
          IN  /\ click'.granted <=>
                    (/\ Column(t) # LANE_WIDTH - 1
                     /\ actor[t] = None
                     /\ Cost(kind) <= batteries)
              /\ click'.granted =>
                    /\ batteries' = batteries - Cost(kind)
                    /\ Len(devs') = d
                    /\ \A e \in 1 .. Len(devs) : devs'[e] = devs[e]
                    /\ devs'[d].kind = kind
                    /\ devs'[d].tile = t
                    /\ actor' = [actor EXCEPT ![t] = DevRef(d)]
                    /\ contraptions' = Append(contraptions, d)
                    /\ ~err']_vars

C5_Witness ==
    /\ click.granted
    /\ Len(contraptions) = 2
    /\ actor[click.t] = DevRef(Len(devs))

\* C6: a refused placement request (entrance tile, occupied tile, cost above
\* the balance) changes neither the balance, nor any tile, nor the devices
\* and their registry, nor any unit, nor the round counter, and raises no
\* error.
C6_RejectedPlacement ==
    [][(ClickStep /\ ~click'.granted) =>
          /\ UNCHANGED <<batteries, actor, devs, contraptions, cats, balls,
                         rounds, state, loses>>
          /\ ~err']_vars

\* a refused request for each of the three reasons
RefusedEntrance ==
    /\ click.t # NoTile /\ ~click.granted
    /\ Column(click.t) = LANE_WIDTH - 1
    /\ actor[click.t] = None
    /\ Cost(click.kind) <= batteries

RefusedOccupied ==
    /\ click.t # NoTile /\ ~click.granted
    /\ Column(click.t) # LANE_WIDTH - 1
    /\ actor[click.t] # None
    /\ Cost(click.kind) <= batteries

RefusedCost ==
    /\ click.t # NoTile /\ ~click.granted
    /\ Column(click.t) # LANE_WIDTH - 1
    /\ actor[click.t] = None
    /\ Cost(click.kind) > batteries

C6_Witness == RefusedOccupied /\ actor[click.t][1] = "cat" /\ Len(devs) >= 1

\* C7: the resource balance is never negative.
C7_BalanceNonNegative == batteries >= 0

C7_Witness == batteries = 0 /\ Len(contraptions) = 2 /\ calls = 0


\* C8: the occupant of every non-empty tile has that tile as its position,
\* and every unit and every device on the board is the occupant of exactly
\* one tile, the one it reports.
C8_TileActorConsistency ==
    /\ \A t \in Tiles :
          LET a == actor[t]
          IN  /\ a[1] = "cat" => (a[2] \in 1 .. Len(cats) /\ cats[a[2]].tile = t)
              /\ a[1] = "dev" => (a[2] \in 1 .. Len(devs) /\ devs[a[2]].tile = t)
              /\ a[1] = "ball" => t \in balls
    /\ \A i \in OnBoardCats : {t \in Tiles : actor[t] = CatRef(i)} = {cats[i].tile}
    /\ \A d \in OnBoardDevs : {t \in Tiles : actor[t] = DevRef(d)} = {devs[d].tile}
    /\ \A i \in 1 .. Len(cats) :
          cats[i].tile = NoTile => \A t \in Tiles : actor[t] # CatRef(i)
    /\ \A d \in 1 .. Len(devs) :
          devs[d].tile = NoTile => \A t \in Tiles : actor[t] # DevRef(d)

C8_Witness ==
    /\ OnBoardCats # {}
    /\ OnBoardDevs # {}
    /\ \E t \in Tiles : actor[t] = Ball
    /\ \E d \in 1 .. Len(devs) : devs[d].tile = NoTile

\* C9: no two actors (units, devices, obstacle tokens) report the same tile
\* as their position, also right after a unit has picked up a token.
C9_DistinctPositions ==
    /\ \A i, j \in OnBoardCats : i # j => cats[i].tile # cats[j].tile
    /\ \A d, e \in OnBoardDevs : d # e => devs[d].tile # devs[e].tile
    /\ \A i \in OnBoardCats, d \in OnBoardDevs : cats[i].tile # devs[d].tile
    /\ \A i \in OnBoardCats : cats[i].tile \notin balls
    /\ \A d \in OnBoardDevs : devs[d].tile \notin balls

\* C10: at every round boundary and after every placement, a unit's
\* attention is 0 exactly when the unit is off the board, and positive when
\* it is on the board.
C10_AttentionIffOnBoard ==
    pc = "idle" =>
        \A i \in 1 .. Len(cats) :
            /\ cats[i].attention >= 0
            /\ (cats[i].attention = 0) <=> (cats[i].tile = NoTile)

C10_Witness ==
    /\ pc = "idle"
    /\ \E i \in 1 .. Len(cats) :
          /\ cats[i].tile = NoTile
          /\ cats[i].rest = NeededRestTime(cats[i].kind) - 1
    /\ \E i \in 1 .. Len(cats) :
          /\ cats[i].tile # NoTile
          /\ cats[i].attention < StartingAttention(cats[i].kind)

\* C11: at every round boundary, whatever initial rest countdown >= 0 a unit
\* was built with, its restTime is 0 exactly when it is on the board, and
\* the restTime of an off-board unit is never negative.
C11_RestIffOnBoard ==
    (pc = "idle" /\ calls > 0) =>
        \A i \in 1 .. Len(cats) :
            /\ (cats[i].rest = 0) <=> (cats[i].tile # NoTile)
            /\ cats[i].tile = NoTile => cats[i].rest >= 0

\* a step of Cat.end_round of the unit idx: Cat.rest when it is off the
\* board, one call of Cat.move when it is on the board
RestStep == pc = "cats" /\ cats[idx].tile = NoTile
MoveStep == pc = "cats" /\ cats[idx].tile # NoTile

\* the lane entrances that are empty before the step
EmptyEntrances == {l \in 0 .. (lanes - 1) : actor[LaneEntrance(l)] = None}

\* C13: an off-board unit with restTime r >= 2 that takes endOfRound stays
\* off board with restTime r - 1 and attention 0; with restTime 1 and at
\* least one empty lane entrance it ends the call on a lane-entrance tile
\* that was empty, with restTime 0 and attention equal to startingAttention
\* (4 for the standard unit).
C13_RestCountdown ==
    [][RestStep =>
          LET i == idx
              r == cats[i].rest
          IN  /\ r >= 2 =>
                    /\ cats'[i].tile = NoTile
                    /\ cats'[i].rest = r - 1
                    /\ cats'[i].attention = 0
                    /\ actor' = actor
                    /\ ~err'
              /\ (r = 1 /\ EmptyEntrances # {}) =>
                    /\ \E l \in EmptyEntrances :
                          /\ cats'[i].tile = LaneEntrance(l)
                          /\ actor' = [actor EXCEPT ![LaneEntrance(l)] = CatRef(i)]
                    /\ cats'[i].rest = 0
                    /\ cats'[i].attention = StartingAttention(cats[i].kind)
                    /\ cats[i].kind = "tabby" => cats'[i].attention = 4
                    /\ ~err']_vars

\* the first round of a game with two units: the first has entered on a
\* lane entrance, the second has counted down from 2 to 1
C13_Witness ==
    /\ calls = 1
    /\ op = [name |-> "rest", unit |-> 2, amount |-> 0]
    /\ cats[2].tile = NoTile /\ cats[2].rest = 1 /\ cats[2].attention = 0
    /\ \E l \in 0 .. (lanes - 1) :
          /\ cats[1].tile = LaneEntrance(l)
          /\ actor[LaneEntrance(l)] = CatRef(1)
    /\ cats[1].rest = 0
    /\ cats[1].attention = StartingAttention(cats[1].kind)

\* C14: when a resting unit's countdown reaches 0 and every lane-entrance
\* tile is occupied, the unit stays off board with attention 0 and restTime
\* exactly 1, no tile changes and no error is raised; it then tries again
\* on its next endOfRound.
C14_NoEmptyLane ==
    [][(RestStep /\ cats[idx].rest = 1 /\ EmptyEntrances = {}) =>
          /\ cats' = [cats EXCEPT ![idx].rest = 1]
          /\ cats'[idx].tile = NoTile
          /\ cats'[idx].attention = 0
          /\ UNCHANGED <<actor, devs, contraptions, balls, batteries, rounds, state>>
          /\ ~err'
          /\ pc' \in {"cats", "finish"}]_vars

\* the second round: a unit built with countdown 2 has just rested while
\* every lane entrance was occupied
C14_Witness ==
    /\ calls = 2
    /\ op.name = "rest"
    /\ cats[op.unit].tile = NoTile
    /\ cats[op.unit].rest = 1
    /\ \A l \in 0 .. (lanes - 1) : actor[LaneEntrance(l)] # None

\* the tile the unit idx stands on and the tile ahead of it
Here == cats[idx].tile
Ahead == Exit(cats[idx].tile)

\* C15 as stated: a unit whose forward tile exists and is empty occupies
\* that tile after one move step; the entrance of that tile is the tile it
\* came from, which is empty.
C15_MoveForward ==
    [][(MoveStep /\ Ahead # NoTile /\ actor[Ahead] = None) =>
          /\ cats'[idx].tile = Ahead
          /\ actor'[Ahead] = CatRef(idx)
          /\ Entrance(Ahead) = Here
          /\ actor'[Here] = None]_vars

\* C15 as amended: after the step the tile the unit came from is empty and
\* is the entrance of the forward tile; the unit occupies the forward tile
\* unless the passive-range check that follows the move has hit it, and a
\* unit that was hit has lost exactly 1 attention and is off the board (at
\* attention 0), on the forward tile, or, for a dodging unit, on the tile
\* above the forward tile.
C15_MoveForwardUnlessHit ==
    [][(MoveStep /\ Ahead # NoTile /\ actor[Ahead] = None) =>
          LET i == idx
              a == cats[i].attention
          IN  /\ Entrance(Ahead) = Here
              /\ actor'[Here] = None
              /\ ~err'
              /\ \/ /\ cats'[i] = [cats[i] EXCEPT !.tile = Ahead]
                    /\ actor' = [actor EXCEPT ![Here] = None, ![Ahead] = CatRef(i)]
                 \/ /\ cats'[i].attention = a - 1
                    /\ \/ /\ a = 1
                          /\ cats'[i].tile = NoTile
                          /\ actor' = [actor EXCEPT ![Here] = None]
                       \/ /\ a > 1
                          /\ cats'[i].tile = Ahead
                          /\ actor' = [actor EXCEPT ![Here] = None,
                                                    ![Ahead] = CatRef(i)]
                       \/ /\ a > 1
                          /\ cats[i].kind = "calico"
                          /\ Above(Ahead) # NoTile
                          /\ cats'[i].tile = Above(Ahead)
                          /\ actor' = [actor EXCEPT ![Here] = None,
                                                    ![Above(Ahead)] = CatRef(i)]]_vars

\* a unit has just stepped onto an empty tile and was not hit
C15_Witness ==
    /\ op.name = "step"
    /\ cats[op.unit].tile # NoTile
    /\ Column(cats[op.unit].tile) < LANE_WIDTH - 1
    /\ actor[cats[op.unit].tile] = CatRef(op.unit)
    /\ actor[Entrance(cats[op.unit].tile)] = None
    /\ cats[op.unit].attention = StartingAttention(cats[op.unit].kind)

\* C16: when the tile ahead of a unit holds a device, one move step invokes
\* that device's interaction exactly once (a multi-use device loses one
\* use; any other device, and a multi-use device at its last use, leaves
\* the board and the registry) and the unit stays on its tile with its
\* attention unchanged, also when the device is removed.
C16_DeviceAhead ==
    [][(MoveStep /\ Ahead # NoTile /\ actor[Ahead][1] = "dev") =>
          LET d == actor[Ahead][2]
          IN  /\ cats' = cats
              /\ ~err'
              /\ UNCHANGED <<batteries, balls, state, rounds>>
              /\ IF devs[d].kind = "snacks" /\ devs[d].uses > 1
                 THEN /\ devs' = [devs EXCEPT ![d].uses = devs[d].uses - 1]
                      /\ UNCHANGED <<actor, contraptions>>
                 ELSE /\ devs'[d].tile = NoTile
                      /\ \A e \in 1 .. Len(devs) : e # d => devs'[e] = devs[e]
                      /\ actor' = [actor EXCEPT ![Ahead] = None]
                      /\ Len(contraptions') = Len(contraptions) - 1
                      /\ \A k \in 1 .. Len(contraptions') : contraptions'[k] # d]_vars

\* a unit has just interacted with the device ahead, which left the board
C16_Witness ==
    /\ op.name = "interact"
    /\ cats[op.unit].tile # NoTile
    /\ actor[Exit(cats[op.unit].tile)] = None
    /\ cats[op.unit].attention = StartingAttention(cats[op.unit].kind)
    /\ \E d \in 1 .. Len(devs) :
          /\ devs[d].tile = NoTile
          /\ \A k \in 1 .. Len(contraptions) : contraptions[k] # d

\* C17: when the tile ahead of a unit holds another unit, a move step
\* changes nothing: no unit's tile, attention or restTime, no tile, no
\* device, and no error is raised.
C17_UnitAhead ==
    [][(MoveStep /\ Ahead # NoTile /\ actor[Ahead][1] = "cat") =>
          /\ UNCHANGED <<cats, actor, devs, contraptions, balls, batteries,
                         rounds, state>>
          /\ ~err']_vars

\* a unit has just waited behind another unit
C17_Witness ==
    /\ op.name = "blocked"
    /\ cats[op.unit].tile # NoTile
    /\ actor[Exit(cats[op.unit].tile)][1] = "cat"
    /\ actor[Exit(cats[op.unit].tile)] # CatRef(op.unit)

\* C18: when the tile ahead of a unit holds an obstacle token, a move step
\* removes the token, puts the unit on that tile and reduces its attention
\* by 1 (the passive-range check may take 1 more); if the token brings the
\* attention to 0 the unit goes to rest, off the board with restTime =
\* neededRestTime, the tile is left empty, and the round goes on: the
\* passive-range check that follows does nothing and raises no error.
C18_TokenAhead ==
    [][(MoveStep /\ Ahead # NoTile /\ actor[Ahead] = Ball) =>
          LET i == idx
              a == cats[i].attention
          IN  /\ actor'[Here] = None
              /\ actor'[Ahead] # Ball
              /\ ~err'
              /\ pc' \in {"cats", "finish"}
              /\ a = 1 =>
                    /\ cats'[i] = [cats[i] EXCEPT !.tile = NoTile,
                                                  !.attention = 0,
                                                  !.rest = NeededRestTime(cats[i].kind)]
                    /\ actor'[Ahead] = None
              /\ a > 1 =>
                    /\ cats'[i].attention \in {a - 1, a - 2}
                    /\ cats'[i].attention = a - 1 =>
                          /\ cats'[i].tile = Ahead
                          /\ actor'[Ahead] = CatRef(i)]_vars

\* C12: distract(amount), amount >= 0, on a non-dodging unit on the board
\* with attention a: if a - amount > 0 the unit stays on its tile with
\* attention a - amount and restTime unchanged; otherwise its attention
\* becomes exactly 0, its restTime neededRestTime, it goes off the board and
\* the tile it stood on becomes empty.
C12_Distract ==
    [][(Live /\ op'.name = "distract" /\ cats[op'.unit].kind # "calico") =>
          LET i == op'.unit
              amount == op'.amount
              a == cats[i].attention
              t == cats[i].tile
          IN  /\ ~err'
              /\ IF a - amount > 0
                 THEN /\ cats' = [cats EXCEPT ![i].attention = a - amount]
                      /\ actor' = actor
                 ELSE /\ cats' = [cats EXCEPT ![i].attention = 0,
                                              ![i].rest = NeededRestTime(cats[i].kind),
                                              ![i].tile = NoTile]
                      /\ actor' = [actor EXCEPT ![t] = None]]_vars

\* a direct call with an amount above the attention left has removed a unit
C12_Witness ==
    /\ op.name = "distract"
    /\ op.amount >= 2
    /\ cats[op.unit].kind # "calico"
    /\ cats[op.unit].tile = NoTile
    /\ cats[op.unit].attention = 0
    /\ cats[op.unit].rest = NeededRestTime(cats[op.unit].kind)
    /\ \E j \in 1 .. Len(cats) : j # op.unit /\ cats[j].tile # NoTile

\* the Manhattan distance of two tiles: lane offset plus column offset
Abs(n) == IF n < 0 THEN 0 - n ELSE n
Distance(s, t) == Abs(Lane(s) - Lane(t)) + Abs(Column(s) - Column(t))

\* the tiles that hold a passive-range device
Heaters == {devs[d].tile : d \in {e \in 1 .. Len(devs) :
                                    devs[e].kind = "heater" /\ devs[e].tile # NoTile}}

\* a move step onto an empty tile or onto an obstacle token, and the
\* attention the move itself leaves (a token costs 1)
SuccessfulMove == MoveStep /\ Ahead # NoTile /\ actor[Ahead] \in {None, Ball}
AfterMove == cats[idx].attention - (IF actor[Ahead] = Ball THEN 1 ELSE 0)

C20_AtMostOneHit ==
    [][(SuccessfulMove /\ AfterMove > 0) =>
          /\ cats'[idx].attention >= AfterMove - 1
          /\ cats'[idx].attention <= AfterMove]_vars

\* the first move of a dodging unit has ended one lane up, next to a tile
\* that two devices have in range, and has cost it 1 attention
C20_Witness ==
    /\ calls = 2
    /\ op.name = "step"
    /\ cats[op.unit].kind = "calico"
    /\ cats[op.unit].attention = StartingAttention("calico") - 1
    /\ cats[op.unit].tile # NoTile
    /\ Below(cats[op.unit].tile) # NoTile
    /\ actor[Below(cats[op.unit].tile)] = None
    /\ Cardinality(Heaters) = 2
    /\ \A h \in Heaters : /\ Lane(h) = Lane(Below(cats[op.unit].tile))
                          /\ Distance(h, Below(cats[op.unit].tile)) <= 2

\* C21: when a dodging unit on the board is distracted and its attention
\* stays above 0, it ends the call on the tile directly above the tile it
\* was on if that tile exists and is empty, and on its original tile
\* otherwise, with no error in either case and its attention reduced by the
\* amount; a distraction that brings its attention to 0 removes it without
\* relocating it.
C21_Dodge ==
    [][(Live /\ op'.name = "distract" /\ cats[op'.unit].kind = "calico") =>
          LET i == op'.unit
              amount == op'.amount
              a == cats[i].attention
              t == cats[i].tile
              up == Above(t)
          IN  /\ ~err'
              /\ \A j \in 1 .. Len(cats) : j # i => cats'[j] = cats[j]
              /\ IF a - amount > 0
                 THEN /\ cats'[i].attention = a - amount
                      /\ cats'[i].rest = cats[i].rest
                      /\ IF up # NoTile /\ actor[up] = None
                         THEN /\ cats'[i].tile = up
                              /\ actor' = [actor EXCEPT ![t] = None, ![up] = CatRef(i)]
                         ELSE /\ cats'[i].tile = t
                              /\ actor' = actor
                 ELSE /\ cats'[i] = [cats[i] EXCEPT !.attention = 0,
                                                    !.rest = NeededRestTime("calico"),
                                                    !.tile = NoTile]
                      /\ actor' = [actor EXCEPT ![t] = None]]_vars

\* a dodging unit distracted by 2 has stayed in the lower lane because the
\* tile above it is occupied
C21_Witness ==
    /\ op.name = "distract"
    /\ op.amount = 2
    /\ cats[op.unit].kind = "calico"
    /\ cats[op.unit].attention = StartingAttention("calico") - 2
    /\ cats[op.unit].tile # NoTile
    /\ Above(cats[op.unit].tile) # NoTile
    /\ actor[Above(cats[op.unit].tile)] # None

\* the turn of the unit idx goes on with another call of move
SameTurn == pc' = "cats" /\ idx' = idx /\ moveNo' = 2

\* C22: a rapid unit on the board at the start of its turn runs the move
\* procedure twice in that turn: two tiles forward over empty tiles, or
\* knocking over a one-interaction device and then stepping onto its tile;
\* if the first move takes it off the board the second move is skipped and
\* it does not rest in that turn, so its restTime is neededRestTime when the
\* turn ends. There is no third move.
C22_RapidTurn ==
    [][(MoveStep /\ cats[idx].kind = "kitten") =>
          LET i == idx
              left == cats'[i].tile = NoTile
          IN  /\ (moveNo = 1 /\ ~left /\ ~err') => SameTurn
              /\ (moveNo = 1 /\ left) =>
                    /\ ~SameTurn
                    /\ moveNo' = 1
                    /\ cats'[i].rest = NeededRestTime("kitten")
              /\ moveNo = 2 =>
                    /\ ~SameTurn
                    /\ moveNo' = 1
                    /\ op.unit = i
                    /\ left => cats'[i].rest = NeededRestTime("kitten")
                    /\ (op.name = "step" /\ Ahead # NoTile /\ actor[Ahead] = None /\ ~left) =>
                          /\ Column(Here) < LANE_WIDTH - 1
                          /\ cats'[i].tile = Here - 1
                          /\ Column(cats'[i].tile) = Column(Entrance(Here)) - 2
                    /\ (op.name = "interact" /\ Ahead # NoTile /\ actor[Ahead] = None /\ ~left) =>
                          cats'[i].tile = Ahead
              /\ (Ahead # NoTile /\ actor[Ahead] = None /\ ~left) =>
                    cats'[i].tile = Ahead]_vars

\* a rapid unit that entered in the round before has ended its turn two
\* tiles from the lane entrance
C22_Witness ==
    /\ op.name = "step"
    /\ cats[op.unit].kind = "kitten"
    /\ moveNo = 1
    /\ ~(pc = "cats" /\ idx = op.unit)
    /\ cats[op.unit].tile # NoTile
    /\ Column(cats[op.unit].tile) = LANE_WIDTH - 3
    /\ cats[op.unit].attention = StartingAttention("kitten")
    /\ \A t \in Tiles : actor[t][1] # "dev"
    /\ Len(devs) = 0

\* the registry without the device d, the order of the others kept
Without(reg, d) == SelectSeq(reg, LAMBDA e : e # d)

\* C23: a single interaction with a device other than the durable blocker
\* (lane scanner, resource generator, short-range scanner, tri-lane
\* scanner, obstacle launcher, passive-range device) takes it off the
\* board, empties its tile and removes it from the registry of active
\* devices, whose size goes down by exactly 1.
C23_KnockedOver ==
    [][(/\ MoveStep
        /\ Ahead # NoTile
        /\ actor[Ahead][1] = "dev"
        /\ devs[actor[Ahead][2]].kind # "snacks") =>
          LET d == actor[Ahead][2]
          IN  /\ devs[d].kind \in {"laser", "charger", "thrower", "triple_laser",
                                   "colorful_thrower", "heater"}
              /\ devs[d].tile = Ahead
              /\ devs'[d].tile = NoTile
              /\ actor'[Ahead] = None
              /\ Len(contraptions') = Len(contraptions) - 1
              /\ contraptions' = Without(contraptions, d)
              /\ ~err']_vars

\* a unit has just knocked over the tri-lane scanner, the only device
C23_Witness ==
    /\ op.name = "interact"
    /\ Len(devs) = 1
    /\ devs[1].kind = "triple_laser"
    /\ devs[1].tile = NoTile
    /\ contraptions = <<>>
    /\ \A t \in Tiles : actor[t][1] # "dev"

\* the devices in the registry
Registered(reg) == {reg[k] : k \in 1 .. Len(reg)}

\* C24: a durable blocker stays on the board and in the registry through
\* its first 4 interactions and is removed from both by exactly its 5th:
\* it is built with 5 uses, every interaction, whatever the unit and the
\* round, takes exactly one, nothing else changes it, and it leaves the
\* board and the registry in the step that takes the last one.
C24_DurableBlocker ==
    [][\A d \in 1 .. Len(devs') :
          devs'[d].kind = "snacks" =>
              /\ devs'[d].uses \in 0 .. 5
              /\ (devs'[d].uses >= 1) <=> (devs'[d].tile # NoTile)
              /\ (devs'[d].tile # NoTile) <=> (d \in Registered(contraptions'))
              /\ IF d > Len(devs)
                 THEN devs'[d].uses = 5
                 ELSE IF MoveStep /\ Ahead # NoTile /\ actor[Ahead] = DevRef(d)
                 THEN /\ devs'[d].uses = devs[d].uses - 1
                      /\ ~err'
                      /\ devs[d].uses > 1 =>
                            /\ devs'[d].tile = Ahead
                            /\ actor'[Ahead] = DevRef(d)
                            /\ contraptions' = contraptions
                      /\ devs[d].uses = 1 =>
                            /\ actor'[Ahead] = None
                            /\ contraptions' = Without(contraptions, d)
                 ELSE devs'[d] = devs[d]]_vars

\* the second unit has just taken the last use of a durable blocker, in a
\* round too early for it to have taken all five
C24_Witness ==
    /\ op.name = "interact"
    /\ op.unit = 2
    /\ calls <= 6
    /\ \E d \in 1 .. Len(devs) :
          /\ devs[d].kind = "snacks"
          /\ devs[d].uses = 0
          /\ devs[d].tile = NoTile
          /\ d \notin Registered(contraptions)

\* a step of `for contraption in self._contraptions`, and the device it runs
DeviceStep == pc = "contraptions"
Running == contraptions[idx]

\* C25: a resource generator grants nothing on its 1st, 3rd, 5th, ...
\* endOfRound after placement and exactly +1 on its 2nd, 4th, 6th, ...: it
\* is built not ready, each of its endOfRound calls grants 1 exactly when it
\* is ready and flips the flag, and nothing else touches the flag, so the
\* flag is set exactly after an odd number of calls; a generator that is the
\* only device ever built has granted floor(k/2) after its k calls.
C25_Generator ==
    [][/\ \A d \in 1 .. Len(devs') :
             devs'[d].kind = "charger" =>
                 IF d > Len(devs)
                 THEN devs'[d].ready = FALSE
                 ELSE IF DeviceStep /\ Running = d
                 THEN /\ devs'[d].ready = ~devs[d].ready
                      /\ batteries' = batteries + (IF devs[d].ready THEN 1 ELSE 0)
                      /\ ~err'
                 ELSE devs'[d].ready = devs[d].ready
       /\ (/\ pc' = "idle"
           /\ Len(devs') = 1
           /\ devs'[1].kind = "charger"
           /\ devs'[1].tile # NoTile) =>
              \E k \in 0 .. calls' :
                  /\ devs'[1].ready = (k % 2 = 1)
                  /\ batteries' = STARTING_BATTERIES - 3 + calls' + (k \div 2)]_vars

\* a generator built before the first round has run twice: the balance is
\* the starting balance minus its cost, plus 2 for the rounds, plus 1
C25_Witness ==
    /\ pc = "idle"
    /\ calls = 2
    /\ Len(devs) = 1
    /\ devs[1].kind = "charger"
    /\ devs[1].tile # NoTile
    /\ ~devs[1].ready
    /\ batteries = STARTING_BATTERIES - 3 + 2 + 1

\* the units within n tiles of tile t on the entrance side of its lane, and
\* the nearest of them (a set of at most one unit)
EntranceSide(t, n) ==
    {i \in OnBoardCats : /\ Lane(cats[i].tile) = Lane(t)
                         /\ Column(cats[i].tile) > Column(t)
                         /\ Column(cats[i].tile) - Column(t) <= n}
Nearest(t, n) ==
    {i \in EntranceSide(t, n) :
        \A j \in EntranceSide(t, n) : Column(cats[i].tile) <= Column(cats[j].tile)}

\* unit i is distracted by n in the step: n attention less; at 0 it is off
\* the board with restTime neededRestTime, otherwise on its tile or, for a
\* dodging unit, on the tile above
Hit(i, n) ==
    /\ cats[i].attention >= n
    /\ cats'[i].attention = cats[i].attention - n
    /\ IF cats'[i].attention = 0
       THEN /\ cats'[i].tile = NoTile
            /\ cats'[i].rest = NeededRestTime(cats[i].kind)
       ELSE /\ cats'[i].rest = cats[i].rest
            /\ \/ cats'[i].tile = cats[i].tile
               \/ /\ cats[i].kind = "calico"
                  /\ cats'[i].tile = Above(cats[i].tile)

\* the step hits exactly the units of the set S, each once
HitsExactly(S) ==
    /\ \A i \in S : Hit(i, 1)
    /\ \A i \in 1 .. Len(cats) : i \notin S => cats'[i] = cats[i]
    /\ S = {} => actor' = actor
    /\ ~err'

C27_ShortRange ==
    [][(DeviceStep /\ devs[Running].kind = "thrower") =>
          LET t == devs[Running].tile
              InReach == {i \in Nearest(t, LANE_WIDTH) :
                             Column(cats[i].tile) - Column(t) <= 3}
          IN  /\ t # NoTile
              /\ Cardinality(InReach) <= 1
              /\ HitsExactly(InReach)
              /\ Cardinality({i \in 1 .. Len(cats) : cats'[i] # cats[i]}) <= 1
              /\ UNCHANGED <<devs, contraptions, balls, batteries, rounds, state>>]_vars

\* a short-range scanner has just hit, for the first time, a unit that
\* entered in the first round and stands exactly 3 tiles from it
C27_Witness ==
    /\ pc = "cats"
    /\ calls = 2
    /\ log[Len(log)][1] = "dev"
    /\ devs[log[Len(log)][2]].kind = "thrower"
    /\ \E i \in OnBoardCats :
          /\ Lane(cats[i].tile) = Lane(devs[log[Len(log)][2]].tile)
          /\ Column(cats[i].tile) - Column(devs[log[Len(log)][2]].tile) = 3
          /\ cats[i].attention = StartingAttention(cats[i].kind) - 1

\* the tiles a tri-lane scanner on tile t scans from: its own, the one above
\* and the one below, where they exist
ScanStarts(t) == {s \in {t, Above(t), Below(t)} : s # NoTile}

\* the units nearest to the scanner's column on the entrance side, one per
\* lane scanned
Targets(t) == UNION {Nearest(s, LANE_WIDTH) : s \in ScanStarts(t)}

\* C28: a tri-lane scanner's endOfRound reduces by 1 the attention of the
\* unit nearest to its column on the entrance side in each of its own lane,
\* the lane above and the lane below, and changes no other unit, so none in
\* a lane two or more lanes away.
C28_TriLane ==
    [][(DeviceStep /\ devs[Running].kind = "triple_laser") =>
          /\ devs[Running].tile # NoTile
          /\ HitsExactly(Targets(devs[Running].tile))]_vars

\* the tiles within n tiles of tile t on its entrance side
Window(t, n) ==
    {s \in DOMAIN actor : /\ Lane(s) = Lane(t)
                          /\ Column(s) > Column(t)
                          /\ Column(s) - Column(t) <= n}

\* the empty tile of S farthest from the exit, if any
Farthest(S) == {s \in S : actor[s] = None /\ \A u \in S : actor[u] = None => u <= s}

\* C29: an obstacle launcher's endOfRound, with a unit within 3 tiles on its
\* entrance side, takes 1 attention from the nearest such unit and places no
\* token; with none, it places exactly one token, on the empty tile farthest
\* from it within those 3 tiles, or changes nothing if none of them is
\* empty. A token is never placed on an occupied tile.
C29_Launcher ==
    [][(DeviceStep /\ devs[Running].kind = "colorful_thrower") =>
          LET t == devs[Running].tile
          IN  /\ t # NoTile
              /\ ~err'
              /\ \A s \in balls' \ balls : actor[s] = None
              /\ UNCHANGED <<devs, contraptions, batteries, rounds, state>>
              /\ IF EntranceSide(t, 3) # {}
                 THEN /\ HitsExactly(Nearest(t, 3))
                      /\ balls' = balls
                      /\ \A s \in DOMAIN actor : actor'[s] = Ball <=> actor[s] = Ball
                 ELSE /\ cats' = cats
                      /\ balls' = balls \cup Farthest(Window(t, 3))
                      /\ actor' = [s \in DOMAIN actor |->
                                      IF s \in Farthest(Window(t, 3)) THEN Ball
                                      ELSE actor[s]]
                      /\ Cardinality(balls' \ balls) <= 1]_vars

\* an obstacle launcher has just placed its second token 2 tiles away, the
\* tile 3 tiles away holding the token of the round before
C29_Witness ==
    /\ pc = "cats"
    /\ calls = 2
    /\ log[Len(log)][1] = "dev"
    /\ devs[log[Len(log)][2]].kind = "colorful_thrower"
    /\ LET t == devs[log[Len(log)][2]].tile
       IN  /\ Column(t) + 3 < LANE_WIDTH
           /\ {t + 2, t + 3} \subseteq balls
           /\ actor[t + 1] = None
           /\ Len(devs) = 1

\* the devices whose end_round the running round has invoked, in order
DevsRun(l) == SelectSeq(l, LAMBDA e : e[1] = "dev")

\* the first n devices of the registry as it was when the round started
FirstRegistered(reg, n) == [k \in 1 .. n |-> DevRef(reg[k])]

\* C30: in every round endOfRound is invoked exactly once on each device
\* registered when the device pass starts and never on a device that has
\* left the board; the registry is not changed during the pass and the pass
\* raises no error.
C30_DevicePass ==
    [][/\ DeviceStep =>
              /\ contraptions = regAtStart
              /\ idx \in 1 .. Len(regAtStart)
              /\ devs[Running].tile # NoTile
              /\ DevsRun(log) = FirstRegistered(regAtStart, idx - 1)
              /\ DevsRun(log') = FirstRegistered(regAtStart, idx)
              /\ contraptions' = contraptions
              /\ ~err'
       /\ (pc \in {"idle", "contraptions"} /\ pc' \in {"cats", "finish"}) =>
              /\ DevsRun(log') = FirstRegistered(regAtStart', Len(regAtStart'))
              /\ \A k, l \in 1 .. Len(regAtStart') :
                    regAtStart'[k] = regAtStart'[l] => k = l
       /\ pc \in {"cats", "finish"} => DevsRun(log') = DevsRun(log)]_vars

\* a round has run both devices registered at its start, and a unit has
\* then removed one of them in the same round
C30_Witness ==
    /\ RoundCompleted
    /\ Len(regAtStart) = 2
    /\ Len(contraptions) = 1
    /\ DevsRun(log) = FirstRegistered(regAtStart, 2)

\* the kinds of device whose end_round scans forward, and their tile budget
Scanners == {"laser", "thrower", "triple_laser", "colorful_thrower"}
ScanRange(kind) == IF kind \in {"laser", "triple_laser"} THEN LANE_WIDTH ELSE 3

\* the occupied tile nearest to tile t on its entrance side, if any
NearestOccupied(t) ==
    {s \in DOMAIN actor :
        /\ Lane(s) = Lane(t) /\ Column(s) > Column(t) /\ actor[s] # None
        /\ \A u \in DOMAIN actor :
              (Lane(u) = Lane(t) /\ Column(u) > Column(t) /\ actor[u] # None) => s <= u}

\* that tile holds a device or an obstacle token
Shielded(t) == \E s \in NearestOccupied(t) : actor[s][1] \in {"dev", "ball"}

\* the tiles the running device scans from
Starts ==
    IF devs[Running].kind = "triple_laser" THEN ScanStarts(devs[Running].tile)
    ELSE {devs[Running].tile}

\* C31 as stated: a forward scan stops at the first occupied tile; when that
\* tile holds a device or an obstacle token, no unit farther along the lane
\* is hit in that scan.
C31_ScanStops ==
    [][(DeviceStep /\ devs[Running].kind \in Scanners) =>
          \A s \in Starts :
              Shielded(s) =>
                  \A i \in EntranceSide(s, LANE_WIDTH) :
                      cats'[i].attention = cats[i].attention]_vars

\* C31 amended: a forward scan stops at the first unit within its tile
\* budget and passes over devices and obstacle tokens as over empty tiles:
\* the first unit in range in the scanner's lane is hit also when an
\* occupied tile stands between, and no other unit of that lane is changed.
C31_ScanPassesOver ==
    [][(DeviceStep /\ devs[Running].kind \in Scanners) =>
          LET t == devs[Running].tile
              k == devs[Running].kind
          IN  /\ \A i \in Nearest(t, ScanRange(k)) :
                    cats[i].attention - cats'[i].attention
                        \in (IF k = "triple_laser" THEN {1, 2} ELSE {1})
              /\ \A i \in EntranceSide(t, LANE_WIDTH) \ Nearest(t, ScanRange(k)) :
                    cats'[i] = cats[i]]_vars

\* a short-range scanner has just hit, in the second round, the unit that
\* entered in the first, with a durable blocker standing between them
C31_Witness ==
    /\ pc = "cats"
    /\ idx = 1
    /\ moveNo = 1
    /\ calls = 2
    /\ cats[1].tile # NoTile
    /\ cats[1].attention = StartingAttention(cats[1].kind) - 1
    /\ \E d, e \in OnBoardDevs :
          /\ devs[d].kind = "thrower"
          /\ devs[e].kind = "snacks"
          /\ Lane(devs[d].tile) = Lane(cats[1].tile)
          /\ Lane(devs[e].tile) = Lane(cats[1].tile)
          /\ Column(devs[d].tile) < Column(devs[e].tile)
          /\ Column(devs[e].tile) < Column(cats[1].tile)

\* C32: distract with a negative amount raises before anything is changed:
\* the unit's attention, restTime and tile, and the rest of the game, are as
\* before the call; the amount is not taken for 0.
C32_NegativeAmount ==
    [][(Live /\ op'.name = "distract" /\ op'.amount < 0) =>
          /\ err'
          /\ UNCHANGED <<cats, actor, devs, contraptions, balls, batteries,
                         rounds, state>>]_vars

\* a negative amount has been refused for a dodging unit on the board that
\* an earlier hit had left with attention below its start
C32_Witness ==
    /\ op.name = "distract"
    /\ op.amount < 0
    /\ err
    /\ cats[op.unit].kind = "calico"
    /\ cats[op.unit].tile # NoTile
    /\ cats[op.unit].attention \in 1 .. (StartingAttention("calico") - 1)

\* C33: in one endOfRound of a tri-lane scanner no unit has its attention
\* reduced more than once: every unit loses at most 1, also a dodging unit
\* that changes lane because of the hit.
C33_OncePerUnit ==
    [][(DeviceStep /\ devs[Running].kind = "triple_laser") =>
          \A i \in 1 .. Len(cats) :
              cats[i].attention - cats'[i].attention <= 1]_vars

\* C34: a unit taken off the board by a device during the device pass rests
\* in the unit pass of the same round and ends the round with restTime
\* neededRestTime - 1; a unit taken off the board during its own move does
\* not rest in that round and ends it with restTime neededRestTime.
C34_RestAfterRemoval ==
    RoundCompleted =>
        \A i \in 1 .. Len(cats) :
            /\ taken[i] = "device" =>
                  /\ cats[i].tile = NoTile
                  /\ cats[i].rest = NeededRestTime(cats[i].kind) - 1
            /\ taken[i] = "move" =>
                  /\ cats[i].tile = NoTile
                  /\ cats[i].rest = NeededRestTime(cats[i].kind)

\* a round has ended in which a device took a unit off the board while
\* another unit stayed on it
C34_Witness ==
    /\ RoundCompleted
    /\ \E i, j \in 1 .. Len(cats) :
          /\ taken[i] = "device"
          /\ cats[i].rest = NeededRestTime(cats[i].kind) - 1
          /\ cats[j].tile # NoTile

\* C35: a lane-entrance tile never holds a device or an obstacle token:
\* whenever a lane entrance is occupied, its occupant is a unit.
C35_EntranceForUnits ==
    \A l \in 0 .. (lanes - 1) : actor[LaneEntrance(l)][1] \in {"none", "cat"}

\* C36: at every round boundary and after every placement request the
\* registry of active devices holds exactly the devices that occupy a tile,
\* each exactly once, and nothing else: it has as many entries as there are
\* tiles holding a device.
C36_Registry ==
    pc = "idle" =>
        /\ Registered(contraptions) = OnBoardDevs
        /\ \A k, l \in 1 .. Len(contraptions) :
              contraptions[k] = contraptions[l] => k = l
        /\ {actor[t][2] : t \in {u \in Tiles : actor[u][1] = "dev"}}
              = Registered(contraptions)
        /\ Len(contraptions) = Cardinality({t \in Tiles : actor[t][1] = "dev"})

\* a round boundary with a device on the board, a device a unit has
\* removed, an obstacle token and a unit on the board
C36_Witness ==
    /\ pc = "idle"
    /\ calls > 0
    /\ Len(contraptions) >= 1
    /\ \E d \in 1 .. Len(devs) : devs[d].tile = NoTile
    /\ \E t \in Tiles : actor[t] = Ball
    /\ OnBoardCats # {}

\* C37: no sequence of validated placement requests and advanceRound calls
\* ever violates the precondition of set_actor (tile empty), of clear_actor
\* (tile not empty) or of spend_batteries (amount at most the balance).
C37_Preconditions == failed = {}

\* a device has been paid for and attached, has thrown a token, and a unit
\* that entered and moved has just picked the token up and stays on board
C37_Witness ==
    /\ failed = {}
    /\ ~err
    /\ OnBoardDevs # {}
    /\ batteries < STARTING_BATTERIES + calls
    /\ op.name = "pickup"
    /\ cats[op.unit].tile # NoTile
    /\ Column(cats[op.unit].tile) < LANE_WIDTH - 2

\* C38: Won and Lost are terminal: the step that signals a loss leaves the
\* round counter as it is, the step that wins is the increment that reaches
\* the threshold in a game no unit has lost, and once the state is Won or
\* Lost no later step or call changes the state, the round counter, the
\* balance, any unit or any tile.
C38_Terminal ==
    [][/\ state # "Active" =>
              UNCHANGED <<state, rounds, batteries, cats, actor, devs,
                          contraptions, balls>>
       /\ (state = "Active" /\ state' = "Lost") =>
              /\ pc = "cats"
              /\ rounds' = rounds
              /\ rounds < WIN_ROUND
       /\ (state = "Active" /\ state' = "Won") =>
              /\ pc = "finish"
              /\ rounds' = WIN_ROUND
              /\ loses' = 0]_vars

\* the end-turn handler or a tile click has been refused after a win
C38_Witness ==
    /\ state = "Won"
    /\ rounds = WIN_ROUND
    /\ err

\* C39: a completed advanceRound raises the balance by exactly 1 plus the
\* number of registered resource generators that were ready when the round
\* started; no other device action and no unit action changes the balance,
\* and the balance goes down only through a successful placement.
C39_BalanceFrame ==
    [][/\ pc = "finish" =>
              batteries' = begin.batteries + 1 + begin.ready
       /\ (DeviceStep /\ devs[Running].kind # "charger") => batteries' = batteries
       /\ pc = "cats" => batteries' = batteries
       /\ batteries' < batteries =>
              /\ ClickStep
              /\ click'.granted
              /\ batteries' = batteries - Cost(click'.kind)]_vars

\* a round has ended that started with two generators registered, one of
\* them ready, and has raised the balance by 2
C39_Witness ==
    /\ RoundCompleted
    /\ Len(regAtStart) = 2
    /\ \A k \in 1 .. 2 : devs[regAtStart[k]].kind = "charger"
    /\ begin.ready = 1
    /\ batteries = begin.batteries + 2

\* the calls of move() end_round makes for a unit of a kind
MovesPerRound(kind) == IF kind = "kitten" THEN 2 ELSE 1

\* C40: while a unit stays on the board its distance to the goal edge never
\* increases: each move step shortens it by 0 or 1, only the unit's own
\* move step shortens it, a round shortens it by at most 1 for a standard
\* or dodging unit and at most 2 for a rapid unit, and a change of lane is
\* a dodging unit going up in its column (when the dodge answers the unit's
\* own move, the column is the one the move has reached).
C40_Advance ==
    [][\A i \in 1 .. Len(cats) :
          /\ (cats[i].tile # NoTile /\ cats'[i].tile # NoTile) =>
                 /\ Column(cats[i].tile) - Column(cats'[i].tile) \in {0, 1}
                 /\ Column(cats'[i].tile) # Column(cats[i].tile) =>
                        MoveStep /\ idx = i
                 /\ Lane(cats'[i].tile) # Lane(cats[i].tile) =>
                        /\ cats[i].kind = "calico"
                        /\ Lane(cats'[i].tile) < Lane(cats[i].tile)
          /\ (begin'.tiles[i] # NoTile /\ cats'[i].tile # NoTile) =>
                 Column(begin'.tiles[i]) - Column(cats'[i].tile)
                     \in 0 .. MovesPerRound(cats[i].kind)]_vars

\* a round is over in which a rapid unit has advanced two tiles and a
\* dodging unit has changed lane
C40_Witness ==
    /\ RoundCompleted
    /\ \E i \in 1 .. Len(cats) :
          /\ cats[i].kind = "kitten"
          /\ begin.tiles[i] # NoTile /\ cats[i].tile # NoTile
          /\ Column(begin.tiles[i]) - Column(cats[i].tile) = 2
    /\ \E i \in 1 .. Len(cats) :
          /\ cats[i].kind = "calico"
          /\ begin.tiles[i] # NoTile /\ cats[i].tile # NoTile
          /\ Lane(cats[i].tile) = Lane(begin.tiles[i]) - 1

====
